---------------------------- MODULE Spec2Model ----------------------------
(***************************************************************************)
(* CPU / memory-bandwidth stress sessions with RAPL energy accounting.     *)
(*                                                                         *)
(* The module models the measurement scripts of the repository:            *)
(*   "cpumore"  src/stresscpumore.py (same main as features/corefreq.py    *)
(*              and features/freq.py): full-intensity CPU processes,       *)
(*              single RAPL domain "core"                                  *)
(*   "cpu"      src/stresscpu.py: full-intensity CPU threads, no energy    *)
(*   "duty"     src/features/dutycyclecpustress.py: duty-cycled processes  *)
(*   "bw"       src/advanced/bwdatatransfer.py: memory-bandwidth worker    *)
(*              processes, all RAPL domains                                *)
(*                                                                         *)
(* Energies are integers in counter units (the scripts divide the raw      *)
(* microjoule integer by 1e6, a uniform scaling).  An intensity fraction   *)
(* is the rational a / FracDen.                                            *)
(***************************************************************************)
EXTENDS Integers, Sequences, FiniteSets, TLC

VARIABLES
    flow,         \* which script's main() is running
    pc,           \* position of main()
    args,         \* parsed command line: [a, duration, interval, workers]
    total_cores,  \* multiprocessing.cpu_count()
    rapl_path,    \* main's rapl_path: "unset", "None" or the domain path
    locals,       \* main's numeric locals: max_j, e_before, e_after, e_delta
    rapl,         \* main's samples: rapl_before, rapl_after, delta
    procs,        \* the worker pool: the state of each started worker
    joined,       \* workers on which join() has returned
    stop_called,  \* stop_processes() has been invoked on the pool
    exc,          \* the exception that ended or is unwinding main()
    interrupted,  \* the pc at which KeyboardInterrupt arrived, "" if none
    out,          \* what main() printed, in order
    elapsed,      \* seconds main() has blocked since the workers started
    fn,           \* pure-function harness: the function under test
    fargs,        \* pure-function harness: its arguments
    ret           \* pure-function harness: its result, <<>> before the call

session_vars ==
    <<flow, pc, args, total_cores, rapl_path, locals, rapl, procs, joined,
      stop_called, exc, interrupted, out, elapsed>>

call_vars ==
    <<fn, fargs, ret>>

vars ==
    <<flow, pc, args, total_cores, rapl_path, locals, rapl, procs, joined,
      stop_called, exc, interrupted, out, elapsed, fn, fargs, ret>>

---------------------------------------------------------------------------
(* Bounds of the model *)

\* fractions are a / FracDen
FracDen ==
    4

\* cpu_count() ranges over 1..MaxCores
MaxCores ==
    3

\* --duration ranges over 0..MaxDuration
MaxDuration ==
    3

\* --interval ranges over 0..MaxInterval
MaxInterval ==
    1

\* --workers ranges over 0..MaxWorkers
MaxWorkers ==
    2

\* max_energy_range of a domain ranges over 1..MaxRange (session flows)
MaxRange ==
    2

\* max_energy_range ranges over 0..MaxRangePure (pure-function harness)
MaxRangePure ==
    5

\* sample values of the compute_rapl_delta harness range over 0..MaxJoules
MaxJoules ==
    2

\* iterations of the endless wait loop of stresscpu.py that are followed
MaxLoop ==
    2

(* Program constants *)

\* time.sleep(2) after the workers start
RampUp ==
    2

\* measure_cpu(label, duration=1.0)
SampleWindow ==
    1

Max(x, y) ==
    IF x >= y THEN x ELSE y

\* Python's int() of the rational n / d (d > 0): truncation toward zero
PyInt(n, d) ==
    IF n >= 0 THEN n \div d ELSE -((-n) \div d)

Printed(e) ==
    \E i \in 1..Len(out) : out[i] = e

---------------------------------------------------------------------------
(* EnergyAccountant *)

\* delta_energy_wrap without the wraparound branch
delta_energy_wrap_nowrap(prev_j, curr_j, max_j) ==
    curr_j - prev_j

\* delta_energy_wrap with a sign slip in the wraparound branch
delta_energy_wrap_minus(prev_j, curr_j, max_j) ==
    IF curr_j >= prev_j
    THEN curr_j - prev_j
    ELSE (max_j - prev_j) - curr_j

\* delta_energy_wrap(prev_j, curr_j, max_j)

delta_energy_wrap(prev_j, curr_j, max_j) ==
    IF curr_j >= prev_j
    THEN curr_j - prev_j
    ELSE (max_j - prev_j) + curr_j

\* the reading of an energy counter of the given period (its readings are
\* 0..period-1) that read `prev` before `consumed` units were consumed
CounterAfter(prev, consumed, period) ==
    (prev + consumed) % period

\* how often that counter restarted from zero meanwhile
Wraps(prev, consumed, period) ==
    (prev + consumed) \div period

\* compute_rapl_delta with the operands of the subtraction exchanged
compute_rapl_delta_swapped(before, after) ==
    [k \in {x \in DOMAIN after : x \in DOMAIN before} |-> before[k] - after[k]]

\* compute_rapl_delta(before, after): for k in after: if k in before:
\* delta[k] = after[k] - before[k]
compute_rapl_delta(before, after) ==
    [k \in {x \in DOMAIN after : x \in DOMAIN before} |-> after[k] - before[k]]

---------------------------------------------------------------------------
(* EnergyCounterReader: the powercap entries of the host *)

\* powercap entries glob() returns that are followed
MaxEntries ==
    2

\* the identifiers (basenames) of the entries, in glob order
EntryIds ==
    <<"intel-rapl:0", "intel-rapl:1", "intel-rapl:2", "intel-rapl:3">>

\* a file of an entry: missing, present but unreadable ("denied"), or
\* readable ("ok") with its text and whether white space surrounds it
File(state, text, ws) ==
    [state |-> state, text |-> text, ws |-> ws]

\* str.strip(): the text without the surrounding white space
Strip(f) ==
    f.text

\* the name files of the find_rapl_domain harness
NameFiles ==
    {File("missing", "", FALSE), File("denied", "", FALSE)}
        \cup {File("ok", t, w) : t \in {"core", "Core", "dram"},
                                 w \in BOOLEAN}

\* every sequence over S of length 0..n
SeqUpTo(S, n) ==
    UNION {[1..k -> S] : k \in 0..n}

Return(v) ==
    [kind |-> "return", value |-> v]

Raise(e) ==
    [kind |-> "raise", value |-> e]

\* find_rapl_domain that takes the entry identifier for the name of an
\* entry whose name file cannot be read
RECURSIVE find_rapl_domain_fallback(_, _, _)
find_rapl_domain_fallback(entries, domain_name, i) ==
    IF i > Len(entries)
    THEN Raise("RuntimeError")
    ELSE IF entries[i].state # "ok"
    THEN IF EntryIds[i] = domain_name
         THEN Return(EntryIds[i])
         ELSE find_rapl_domain_fallback(entries, domain_name, i + 1)
    ELSE IF Strip(entries[i]) = domain_name
    THEN Return(EntryIds[i])
    ELSE find_rapl_domain_fallback(entries, domain_name, i + 1)

\* find_rapl_domain(domain_name), from the i-th entry of the glob on:
\* open(name_file) raising FileNotFoundError skips the entry, any other
\* error of open() leaves the function; after the loop RuntimeError
RECURSIVE find_rapl_domain_from(_, _, _)
find_rapl_domain_from(entries, domain_name, i) ==
    IF i > Len(entries)
    THEN Raise("RuntimeError")
    ELSE IF entries[i].state = "missing"
    THEN find_rapl_domain_from(entries, domain_name, i + 1)
    ELSE IF entries[i].state = "denied"
    THEN Raise("PermissionError")
    ELSE IF Strip(entries[i]) = domain_name
    THEN Return(EntryIds[i])
    ELSE find_rapl_domain_from(entries, domain_name, i + 1)

find_rapl_domain(entries, domain_name) ==
    find_rapl_domain_from(entries, domain_name, 1)

\* an entry of the read_rapl_energy harness: its name file and its
\* energy_uj file; an energy file that is "ok" holds the digits of `uj`
\* ("malformed": readable, not a number)
RaplEntries ==
    {e \in [name : {File("missing", "", FALSE), File("denied", "", FALSE)}
                       \cup {File("ok", t, TRUE) : t \in {"core", "dram"}},
            energy : {"missing", "denied", "malformed", "ok"},
            uj : 0..MaxJoules] :
        e.energy # "ok" => e.uj = 0}

\* rapl_data[domain] = value; the values are kept in counter units (the
\* code stores int(val) / 1e6, the same number in joules)
Store(rapl_data, domain, value) ==
    [k \in DOMAIN rapl_data \cup {domain} |->
        IF k = domain THEN value ELSE rapl_data[k]]

\* bwdatatransfer.py read_rapl_energy(), from the i-th entry on: sudo_cat
\* returns None for a file it cannot read; the name falls back to the
\* basename and a missing or non-digit counter leaves the entry out
RECURSIVE read_rapl_energy_bw_from(_, _, _)
read_rapl_energy_bw_from(entries, i, rapl_data) ==
    IF i > Len(entries)
    THEN Return(rapl_data)
    ELSE LET e == entries[i]
             domain == IF e.name.state = "ok" THEN Strip(e.name)
                                              ELSE EntryIds[i]
         IN  IF e.energy = "ok"
             THEN read_rapl_energy_bw_from(entries, i + 1,
                      Store(rapl_data, domain, e.uj))
             ELSE read_rapl_energy_bw_from(entries, i + 1, rapl_data)

read_rapl_energy_bw(entries) ==
    read_rapl_energy_bw_from(entries, 1, <<>>)

\* memorystressbw.py read_rapl_energy(), from the i-th entry on: the files
\* that exist are opened and the counter goes through int() unguarded
RECURSIVE read_rapl_energy_mem_from(_, _, _)
read_rapl_energy_mem_from(entries, i, rapl_data) ==
    IF i > Len(entries)
    THEN Return(rapl_data)
    ELSE LET e == entries[i]
             domain_name == IF e.name.state = "ok" THEN Strip(e.name)
                                                   ELSE EntryIds[i]
         IN  IF e.name.state = "denied"
             THEN Raise("PermissionError")
             ELSE IF e.energy = "missing"
             THEN read_rapl_energy_mem_from(entries, i + 1, rapl_data)
             ELSE IF e.energy = "denied"
             THEN Raise("PermissionError")
             ELSE IF e.energy = "malformed"
             THEN Raise("ValueError")
             ELSE read_rapl_energy_mem_from(entries, i + 1,
                      Store(rapl_data, domain_name, e.uj))

read_rapl_energy_mem(entries) ==
    read_rapl_energy_mem_from(entries, 1, <<>>)

---------------------------------------------------------------------------
(* LoadGenerator: the buffers of a memory worker *)

\* bytes of memory of the host (psutil.virtual_memory().total)
MaxMem ==
    64

\* bytes of a float64 element
Float64Bytes ==
    8

\* the sizes in bytes of the buffers worker_task(fraction, ...) allocates,
\* fraction = a / FracDen: three arrays of (int(total * fraction) // 3) // 8
\* elements
worker_task(total, a) ==
    LET bytes_to_use == PyInt(total * a, FracDen)
        bytes_per_array == bytes_to_use \div 3
        n_elements == bytes_per_array \div Float64Bytes
    IN  [i \in 1..3 |-> n_elements * Float64Bytes]

\* the sizes in bytes of the buffers memory_bandwidth_stress(fraction)
\* allocates: two arrays of int(total_mem * fraction) // 8 elements
memory_bandwidth_stress(total_mem, a) ==
    LET bytes_to_use == PyInt(total_mem * a, FracDen)
        n_elements == bytes_to_use \div Float64Bytes
    IN  [i \in 1..2 |-> n_elements * Float64Bytes]

---------------------------------------------------------------------------
(* Harness for the pure functions: Init draws the arguments, the call     *)
(* action applies the function.                                            *)

\* names a powercap entry can declare
DomainNames ==
    {"core", "dram", "package-0"}

\* every sample (mapping from domain name to reading) over names N, values V
Samples(N, V) ==
    UNION {[S -> V] : S \in SUBSET N}

\* the session variables while no session runs
NoSession ==
    /\ flow = "none"
    /\ pc = "idle"
    /\ args = [a |-> 0, duration |-> 0, interval |-> 0, workers |-> 0]
    /\ total_cores = 1
    /\ rapl_path = "unset"
    /\ locals = <<>>
    /\ rapl = <<>>
    /\ procs = <<>>
    /\ joined = {}
    /\ stop_called = FALSE
    /\ exc = "none"
    /\ interrupted = ""
    /\ out = <<>>
    /\ elapsed = 0

\* the harness variables while no function is under test
NoCall ==
    /\ fn = "none"
    /\ fargs = <<>>
    /\ ret = <<>>

InitPure ==
    /\ NoSession
    /\ ret = <<>>
    /\ \/ /\ fn = "delta_energy_wrap"
          /\ fargs \in (0..MaxRangePure) \X (0..MaxRangePure) \X (0..MaxRangePure)
       \/ /\ fn = "compute_rapl_delta"
          /\ fargs \in Samples(DomainNames, 0..MaxJoules)
                         \X Samples(DomainNames, 0..MaxJoules)
       \/ /\ fn = "energy_over_counter"
          /\ \E max_j \in 1..MaxRangePure :
                \E period \in {max_j, max_j + 1} :
                   fargs \in (0..(period - 1)) \X (0..(2 * period))
                                 \X {max_j} \X {period}
       \/ /\ fn \in {"worker_task", "memory_bandwidth_stress"}
          /\ fargs \in (0..MaxMem) \X (0..FracDen)
       \/ /\ fn = "find_rapl_domain"
          /\ fargs \in SeqUpTo(NameFiles, MaxEntries)
                         \X {"core", "Core", "intel-rapl:0"}
       \/ /\ fn \in {"read_rapl_energy_bw", "read_rapl_energy_mem"}
          /\ fargs \in {<<es>> : es \in SeqUpTo(RaplEntries, MaxEntries)}

CallDeltaEnergyWrap ==
    /\ fn = "delta_energy_wrap"
    /\ ret = <<>>
    /\ ret' = <<delta_energy_wrap(fargs[1], fargs[2], fargs[3])>>
    /\ UNCHANGED <<fn, fargs>>
    /\ UNCHANGED session_vars

\* main(): e_before = read_energy_j(), the load, e_after = read_energy_j(),
\* e_delta = delta_energy_wrap(e_before, e_after, max_j), over a counter
\* that read fargs[1] and then counted fargs[2] units
CallEnergyOverCounter ==
    /\ fn = "energy_over_counter"
    /\ ret = <<>>
    /\ ret' = <<delta_energy_wrap(fargs[1],
                    CounterAfter(fargs[1], fargs[2], fargs[4]), fargs[3])>>
    /\ UNCHANGED <<fn, fargs>>
    /\ UNCHANGED session_vars

CallComputeRaplDelta ==
    /\ fn = "compute_rapl_delta"
    /\ ret = <<>>
    /\ ret' = <<compute_rapl_delta(fargs[1], fargs[2])>>
    /\ UNCHANGED <<fn, fargs>>
    /\ UNCHANGED session_vars

CallFindRaplDomain ==
    /\ fn = "find_rapl_domain"
    /\ ret = <<>>
    /\ ret' = <<find_rapl_domain(fargs[1], fargs[2])>>
    /\ UNCHANGED <<fn, fargs>>
    /\ UNCHANGED session_vars

CallReadRaplEnergyBw ==
    /\ fn = "read_rapl_energy_bw"
    /\ ret = <<>>
    /\ ret' = <<read_rapl_energy_bw(fargs[1])>>
    /\ UNCHANGED <<fn, fargs>>
    /\ UNCHANGED session_vars

CallReadRaplEnergyMem ==
    /\ fn = "read_rapl_energy_mem"
    /\ ret = <<>>
    /\ ret' = <<read_rapl_energy_mem(fargs[1])>>
    /\ UNCHANGED <<fn, fargs>>
    /\ UNCHANGED session_vars

CallWorkerTask ==
    /\ fn = "worker_task"
    /\ ret = <<>>
    /\ ret' = <<worker_task(fargs[1], fargs[2])>>
    /\ UNCHANGED <<fn, fargs>>
    /\ UNCHANGED session_vars

CallMemoryBandwidthStress ==
    /\ fn = "memory_bandwidth_stress"
    /\ ret = <<>>
    /\ ret' = <<memory_bandwidth_stress(fargs[1], fargs[2])>>
    /\ UNCHANGED <<fn, fargs>>
    /\ UNCHANGED session_vars

NextPure ==
    \/ CallDeltaEnergyWrap
    \/ CallComputeRaplDelta
    \/ CallEnergyOverCounter
    \/ CallFindRaplDomain
    \/ CallReadRaplEnergyBw
    \/ CallReadRaplEnergyMem
    \/ CallWorkerTask
    \/ CallMemoryBandwidthStress

SpecPure ==
    InitPure /\ [][NextPure]_vars

---------------------------------------------------------------------------
(* StressSession: main() of each script *)

Flows ==
    {"cpumore", "cpu", "duty", "bw"}

\* the statements of main() in program order, with the baseline energy
\* reading moved after the start of the workers
OrderLoadFirst(f) ==
    CASE f = "cpumore" ->
           <<"validate", "find_domain", "baseline_util", "start",
             "baseline_energy", "rampup", "during", "wait", "stop",
             "final_energy", "summary", "done">>
      [] f = "cpu" ->
           <<"validate", "start", "baseline_util", "rampup", "during",
             "loop", "done">>
      [] f = "duty" ->
           <<"validate", "find_domain", "baseline_util", "start",
             "baseline_energy", "during", "stop", "final_energy",
             "summary", "done">>
      [] f = "bw" ->
           <<"validate", "baseline_util", "start", "baseline_energy",
             "join", "after_util", "final_energy", "summary", "done">>

\* the statements of main() in program order, with the final energy
\* reading moved before the teardown of the workers
OrderReadFirst(f) ==
    CASE f = "cpumore" ->
           <<"validate", "find_domain", "baseline_util", "baseline_energy",
             "start", "rampup", "during", "wait", "final_energy", "stop",
             "summary", "done">>
      [] f = "cpu" ->
           <<"validate", "baseline_util", "start", "rampup", "during",
             "loop", "done">>
      [] f = "duty" ->
           <<"validate", "find_domain", "baseline_util", "baseline_energy",
             "start", "during", "final_energy", "stop", "summary", "done">>
      [] f = "bw" ->
           <<"validate", "baseline_util", "baseline_energy", "start",
             "final_energy", "join", "after_util", "summary", "done">>

\* the statements of main() in program order, with the discovery of the
\* energy domain of stresscpumore.py moved after the start of the workers
OrderFindLate(f) ==
    CASE f = "cpumore" ->
           <<"validate", "baseline_util", "start", "find_domain",
             "baseline_energy", "rampup", "during", "wait", "stop",
             "final_energy", "summary", "done">>
      [] f = "cpu" ->
           <<"validate", "baseline_util", "start", "rampup", "during",
             "loop", "done">>
      [] f = "duty" ->
           <<"validate", "find_domain", "baseline_util", "baseline_energy",
             "start", "during", "stop", "final_energy", "summary", "done">>
      [] f = "bw" ->
           <<"validate", "baseline_util", "baseline_energy", "start",
             "join", "after_util", "final_energy", "summary", "done">>

\* the statements of main() in program order
Order(f) ==
    CASE f = "cpumore" ->
           <<"validate", "find_domain", "baseline_util", "baseline_energy",
             "start", "rampup", "during", "wait", "stop", "final_energy",
             "summary", "done">>
      [] f = "cpu" ->
           <<"validate", "baseline_util", "start", "rampup", "during",
             "loop", "done">>
      [] f = "duty" ->
           <<"validate", "find_domain", "baseline_util", "baseline_energy",
             "start", "during", "stop", "final_energy", "summary", "done">>
      [] f = "bw" ->
           <<"validate", "baseline_util", "baseline_energy", "start",
             "join", "after_util", "final_energy", "summary", "done">>

\* the statement main() runs after statement p completes normally
NextPc(p) ==
    LET s == Order(flow)
        i == CHOOSE j \in 1..Len(s) : s[j] = p
    IN  s[i + 1]

\* the session has ended: main() returned, or an exception left it
Ended ==
    pc \in {"done", "aborted"}

\* time.sleep(max(0, duration - 2))
WaitCredit ==
    2

\* names the powercap entries of the host declare (all-domain flow)
HostNames ==
    {"core", "dram"}

RaplPath ==
    "/sys/class/powercap/intel-rapl:0:0"

\* main()'s check of the fraction (and, duty-cycle, of interval and duration)
Accepted(f, ar) ==
    CASE f \in {"cpumore", "cpu"} -> 0 <= ar.a /\ ar.a <= FracDen
      [] f = "duty" -> /\ 0 <= ar.a /\ ar.a <= FracDen
                       /\ ~(ar.interval <= 0 \/ ar.duration <= 0)
      [] f = "bw" -> 0 < ar.a /\ ar.a <= FracDen

\* stress_cpu's worker count, without the lower limit of one worker
cores_to_use_nomax(cores, a) ==
    PyInt(cores * a, FracDen)

\* stress_cpu: cores_to_use = max(1, int(total_cores * target_fraction))
cores_to_use(cores, a) ==
    Max(1, PyInt(cores * a, FracDen))

\* the number of workers the start step of flow f spawns
SpawnCount(f) ==
    CASE f \in {"cpumore", "cpu"} -> cores_to_use(total_cores, args.a)
      [] f = "duty" -> total_cores
      [] f = "bw" -> args.workers

Init ==
    /\ NoCall
    /\ flow \in Flows
    /\ pc = "validate"
    /\ \E a \in -1..(FracDen + 1), d \in 0..MaxDuration,
          i \in 0..MaxInterval, w \in 0..MaxWorkers :
          args = [a |-> a,
                  duration |-> IF flow = "cpu" THEN 0 ELSE d,
                  interval |-> IF flow = "duty" THEN i ELSE 0,
                  workers |-> IF flow = "bw" THEN w ELSE 0]
    /\ total_cores \in IF flow = "bw" THEN {1} ELSE 1..MaxCores
    /\ rapl_path = "unset"
    /\ locals = <<>>
    /\ rapl = <<>>
    /\ procs = <<>>
    /\ joined = {}
    /\ stop_called = FALSE
    /\ exc = "none"
    /\ interrupted = ""
    /\ out = <<>>
    /\ elapsed = 0

\* main(): the argument check; an invalid argument prints an error and returns
Validate ==
    /\ pc = "validate"
    /\ IF Accepted(flow, args)
       THEN /\ pc' = NextPc(pc)
            /\ out' = out
       ELSE /\ pc' = "done"
            /\ out' = Append(out, "error")
    /\ UNCHANGED <<flow, args, total_cores, rapl_path, locals, rapl, procs,
                   joined, stop_called, exc, interrupted, elapsed>>
    /\ UNCHANGED call_vars

\* main(): find_rapl_domain("core") and read_max_energy_j(rapl_path); the
\* duty-cycle script catches a failure and goes on without energy accounting
FindDomain ==
    /\ pc = "find_domain"
    /\ \/ \E m \in 1..MaxRange :
             /\ rapl_path' = RaplPath
             /\ locals' = ("max_j" :> m)
             /\ out' = Append(out, "using_rapl")
             /\ pc' = NextPc(pc)
             /\ exc' = exc
       \/ \E e \in {"RuntimeError", "OSError"} :
             IF flow = "duty"
             THEN /\ rapl_path' = "None"
                  /\ locals' = locals
                  /\ out' = Append(out, "warning_rapl")
                  /\ pc' = NextPc(pc)
                  /\ exc' = exc
             ELSE /\ rapl_path' = rapl_path
                  /\ locals' = locals
                  /\ out' = out
                  /\ pc' = "aborted"
                  /\ exc' = e
    /\ UNCHANGED <<flow, args, total_cores, rapl, procs, joined, stop_called,
                   interrupted, elapsed>>
    /\ UNCHANGED call_vars

\* main(): measure_cpu("before") / measure_memory("before")
BaselineUtil ==
    /\ pc = "baseline_util"
    /\ out' = Append(out, "util_before")
    /\ pc' = NextPc(pc)
    /\ UNCHANGED <<flow, args, total_cores, rapl_path, locals, rapl, procs,
                   joined, stop_called, exc, interrupted, elapsed>>
    /\ UNCHANGED call_vars

\* main(): e_before = read_energy_j(rapl_path) / rapl_before = read_rapl_energy()
BaselineEnergy ==
    /\ pc = "baseline_energy"
    /\ \/ /\ flow \in {"cpumore", "duty"}
          /\ rapl_path = RaplPath
          /\ \/ \E v \in 0..locals["max_j"] :
                   /\ locals' = locals @@ ("e_before" :> v)
                   /\ out' = Append(out, "energy_before")
                   /\ pc' = NextPc(pc)
                   /\ exc' = exc
             \/ /\ locals' = locals
                /\ out' = out
                /\ pc' = "aborted"
                /\ exc' = "OSError"
          /\ rapl' = rapl
       \/ /\ flow = "duty"
          /\ rapl_path = "None"
          /\ locals' = locals @@ ("e_before" :> 0)
          /\ out' = Append(out, "energy_before")
          /\ pc' = NextPc(pc)
          /\ UNCHANGED <<rapl, exc>>
       \/ /\ flow = "bw"
          /\ \E s \in Samples(HostNames, 0..MaxRange) :
                rapl' = ("rapl_before" :> s)
          /\ out' = Append(out, "energy_before")
          /\ pc' = NextPc(pc)
          /\ UNCHANGED <<locals, exc>>
    /\ UNCHANGED <<flow, args, total_cores, rapl_path, procs, joined,
                   stop_called, interrupted, elapsed>>
    /\ UNCHANGED call_vars

\* main(): stress_cpu(a) / start_stress_processes(a, interval, duration) /
\* the spawn loop of bwdatatransfer.py.  Process.start() may fail at any
\* worker; the exception leaves main() with the earlier workers running.
Start ==
    /\ pc = "start"
    /\ IF flow = "bw" /\ args.workers = 0
       THEN \* per_worker_fraction = a / workers
            /\ exc' = "ZeroDivisionError"
            /\ pc' = "aborted"
            /\ UNCHANGED <<procs, out>>
       ELSE LET n == SpawnCount(flow)
            IN  \/ /\ procs' = [i \in 1..n |-> "Running"]
                   /\ out' = Append(out, "starting")
                   /\ pc' = NextPc(pc)
                   /\ exc' = exc
                \/ \E k \in 0..(n - 1) :
                      /\ procs' = [i \in 1..k |-> "Running"]
                      /\ out' = Append(out, "starting")
                      /\ pc' = "aborted"
                      /\ exc' = "OSError"
    /\ elapsed' = 0
    /\ UNCHANGED <<flow, args, total_cores, rapl_path, locals, rapl, joined,
                   stop_called, interrupted>>
    /\ UNCHANGED call_vars

\* main(): time.sleep(2)
RampUpSleep ==
    /\ pc = "rampup"
    /\ elapsed' = elapsed + RampUp
    /\ pc' = NextPc(pc)
    /\ UNCHANGED <<flow, args, total_cores, rapl_path, locals, rapl, procs,
                   joined, stop_called, exc, interrupted, out>>
    /\ UNCHANGED call_vars

\* main(): measure_cpu("during") / measure_cpu("during", duration)
During ==
    /\ pc = "during"
    /\ elapsed' = elapsed + (IF flow = "duty" THEN args.duration
                                              ELSE SampleWindow)
    /\ out' = Append(out, "util_during")
    /\ pc' = NextPc(pc)
    /\ UNCHANGED <<flow, args, total_cores, rapl_path, locals, rapl, procs,
                   joined, stop_called, exc, interrupted>>
    /\ UNCHANGED call_vars

\* main(): time.sleep(max(0, duration - 2))
Wait ==
    /\ pc = "wait"
    /\ elapsed' = elapsed + Max(0, args.duration - WaitCredit)
    /\ pc' = NextPc(pc)
    /\ UNCHANGED <<flow, args, total_cores, rapl_path, locals, rapl, procs,
                   joined, stop_called, exc, interrupted, out>>
    /\ UNCHANGED call_vars

\* stresscpu.py main(): while True: time.sleep(1)
Loop ==
    /\ pc = "loop"
    /\ elapsed < RampUp + SampleWindow + MaxLoop
    /\ elapsed' = elapsed + 1
    /\ UNCHANGED <<flow, pc, args, total_cores, rapl_path, locals, rapl,
                   procs, joined, stop_called, exc, interrupted, out>>
    /\ UNCHANGED call_vars

\* stop_processes(processes): terminate() every worker that is alive, then
\* join(timeout=1) each; a terminated worker either exits within the timeout
\* or is still alive ("Stopping") when join returns.  In the duty-cycle
\* script the call sits in a finally block, which re-raises afterwards.
StopProcesses ==
    /\ pc = "stop"
    /\ \E hung \in SUBSET {i \in 1..Len(procs) : procs[i] # "Stopped"} :
          procs' = [i \in 1..Len(procs) |->
                       IF i \in hung THEN "Stopping" ELSE "Stopped"]
    /\ joined' = 1..Len(procs)
    /\ stop_called' = TRUE
    /\ out' = Append(out, "stopping")
    /\ pc' = IF exc = "none" THEN NextPc(pc) ELSE "aborted"
    /\ UNCHANGED <<flow, args, total_cores, rapl_path, locals, rapl, exc,
                   interrupted, elapsed>>
    /\ UNCHANGED call_vars

\* bwdatatransfer.py main(): for p in procs: p.join()   (no timeout: returns
\* once every worker has exited)
JoinWorkers ==
    /\ pc = "join"
    /\ \A i \in 1..Len(procs) : procs[i] = "Stopped"
    /\ joined' = 1..Len(procs)
    /\ pc' = NextPc(pc)
    /\ UNCHANGED <<flow, args, total_cores, rapl_path, locals, rapl, procs,
                   stop_called, exc, interrupted, out, elapsed>>
    /\ UNCHANGED call_vars

\* bwdatatransfer.py main(): measure_memory("after")
AfterUtil ==
    /\ pc = "after_util"
    /\ out' = Append(out, "util_after")
    /\ pc' = NextPc(pc)
    /\ UNCHANGED <<flow, args, total_cores, rapl_path, locals, rapl, procs,
                   joined, stop_called, exc, interrupted, elapsed>>
    /\ UNCHANGED call_vars

\* main(): e_after = read_energy_j(rapl_path) and e_delta =
\* delta_energy_wrap(e_before, e_after, max_j); all-domain flow: rapl_after =
\* read_rapl_energy() and delta = compute_rapl_delta(rapl_before, rapl_after)
FinalEnergy ==
    /\ pc = "final_energy"
    /\ \/ /\ flow \in {"cpumore", "duty"}
          /\ rapl_path = RaplPath
          /\ \/ \E v \in 0..locals["max_j"] :
                   /\ locals' = locals @@ ("e_after" :> v) @@
                          ("e_delta" :> delta_energy_wrap(
                               locals["e_before"], v, locals["max_j"]))
                   /\ out' = Append(out, "energy_after")
                   /\ pc' = NextPc(pc)
                   /\ exc' = exc
             \/ /\ locals' = locals
                /\ out' = out
                /\ pc' = "aborted"
                /\ exc' = "OSError"
          /\ rapl' = rapl
       \/ /\ flow = "duty"
          /\ rapl_path = "None"
          /\ locals' = locals @@ ("e_after" :> 0)
          /\ out' = out
          /\ pc' = NextPc(pc)
          /\ UNCHANGED <<rapl, exc>>
       \/ /\ flow = "bw"
          /\ \E s \in Samples(HostNames, 0..MaxRange) :
                rapl' = rapl @@ ("rapl_after" :> s) @@
                    ("delta" :> compute_rapl_delta(rapl["rapl_before"], s))
          /\ out' = Append(out, "energy_after")
          /\ pc' = NextPc(pc)
          /\ UNCHANGED <<locals, exc>>
    /\ UNCHANGED <<flow, args, total_cores, rapl_path, procs, joined,
                   stop_called, interrupted, elapsed>>
    /\ UNCHANGED call_vars

\* the energy delta main() has to print at the summary, if any
HasDelta ==
    \/ "e_delta" \in DOMAIN locals
    \/ /\ "delta" \in DOMAIN rapl
       /\ DOMAIN rapl["delta"] # {}

\* main(): the summary prints; the all-domain flow prints v / elapsed per
\* domain, with elapsed = duration
Summary ==
    /\ pc = "summary"
    /\ IF flow = "bw" /\ HasDelta /\ args.duration = 0
       THEN /\ exc' = "ZeroDivisionError"
            /\ pc' = "aborted"
            /\ out' = out
       ELSE /\ exc' = exc
            /\ pc' = NextPc(pc)
            /\ out' = out \o (IF HasDelta THEN <<"summary">> ELSE <<>>)
                          \o <<"complete">>
    /\ UNCHANGED <<flow, args, total_cores, rapl_path, locals, rapl, procs,
                   joined, stop_called, interrupted, elapsed>>
    /\ UNCHANGED call_vars

\* a worker process exits: a duty-cycle or memory worker returns when its
\* duration is over, a worker that was sent SIGTERM dies
WorkerExit(i) ==
    /\ ~Ended
    /\ i \in 1..Len(procs)
    /\ \/ procs[i] = "Running" /\ flow \in {"duty", "bw"}
       \/ procs[i] = "Stopping"
    /\ procs' = [procs EXCEPT ![i] = "Stopped"]
    /\ UNCHANGED <<flow, pc, args, total_cores, rapl_path, locals, rapl,
                   joined, stop_called, exc, interrupted, out, elapsed>>
    /\ UNCHANGED call_vars

\* KeyboardInterrupt arrives while main() is at pc.  Only two places handle
\* it: the try/finally around measure_cpu("during", duration) of the
\* duty-cycle script, and the try/except around the wait loop of
\* stresscpu.py; everywhere else the exception leaves main().  One
\* interrupt per session is followed.
Interrupt ==
    /\ ~Ended
    /\ interrupted = ""
    /\ interrupted' = pc
    /\ IF flow = "duty" /\ pc = "during"
       THEN /\ exc' = "KeyboardInterrupt"
            /\ pc' = "stop"
            /\ out' = out
       ELSE IF flow = "cpu" /\ pc = "loop"
       THEN /\ exc' = exc
            /\ pc' = NextPc(pc)
            /\ out' = Append(out, "stopping")
       ELSE /\ exc' = "KeyboardInterrupt"
            /\ pc' = "aborted"
            /\ out' = out
    /\ UNCHANGED <<flow, args, total_cores, rapl_path, locals, rapl, procs,
                   joined, stop_called, elapsed>>
    /\ UNCHANGED call_vars

Next ==
    \/ Validate
    \/ FindDomain
    \/ BaselineUtil
    \/ BaselineEnergy
    \/ Start
    \/ RampUpSleep
    \/ During
    \/ Wait
    \/ Loop
    \/ StopProcesses
    \/ JoinWorkers
    \/ AfterUtil
    \/ FinalEnergy
    \/ Summary
    \/ \E i \in 1..Len(procs) : WorkerExit(i)
    \/ Interrupt

Spec ==
    Init /\ [][Next]_vars

---------------------------------------------------------------------------
(* Claims about the pure functions (checked under SpecPure) *)

\* C1: for 0 <= prev, curr <= maxRange, delta_energy_wrap(prev, curr,
\* maxRange) is curr - prev when curr >= prev and (maxRange - prev) + curr
\* otherwise, and the result lies in [0, maxRange].
C1_DeltaWrapContract ==
    (fn = "delta_energy_wrap" /\ Len(ret) = 1) =>
        LET prev == fargs[1]
            curr == fargs[2]
            maxRange == fargs[3]
        IN  (prev <= maxRange /\ curr <= maxRange) =>
                /\ curr >= prev => ret[1] = curr - prev
                /\ curr < prev => ret[1] = (maxRange - prev) + curr
                /\ ret[1] >= 0
                /\ ret[1] <= maxRange

\* the wrap scenario of the spec (maxRange=100, prev=95, curr=5 gives 10),
\* scaled to the bound: maxRange=5, prev=4, curr=1 gives 2
C1_Witness ==
    /\ fn = "delta_energy_wrap"
    /\ fargs = <<4, 1, 5>>
    /\ ret = <<2>>

\* C2: the keys of compute_rapl_delta(before, after) are exactly the
\* domain names present in both samples, and the value of each key k is
\* after[k] - before[k]; names present in one sample only are dropped.
C2_RaplDeltaContract ==
    (fn = "compute_rapl_delta" /\ Len(ret) = 1) =>
        LET before == fargs[1]
            after == fargs[2]
        IN  /\ DOMAIN ret[1] = (DOMAIN before) \cap (DOMAIN after)
            /\ \A k \in (DOMAIN before) \cap (DOMAIN after) :
                   ret[1][k] = after[k] - before[k]

\* the scenario of the spec: before = {core, dram}, after = {core,
\* package-0}: only "core" is kept, with after - before
C2_Witness ==
    /\ fn = "compute_rapl_delta"
    /\ Len(ret) = 1
    /\ DOMAIN fargs[1] = {"core", "dram"}
    /\ DOMAIN fargs[2] = {"core", "package-0"}
    /\ fargs[1]["core"] = 0
    /\ fargs[2]["core"] = 2
    /\ DOMAIN ret[1] = {"core"}
    /\ ret[1]["core"] = 2

---------------------------------------------------------------------------
(* Claims about the sessions (checked under Spec) *)

\* every worker the start step spawns has been started
PoolStarted ==
    /\ Len(procs) > 0
    /\ Len(procs) = SpawnCount(flow)

\* the final (post-load) energy reading has been taken
FinalRead ==
    \/ "e_after" \in DOMAIN locals
    \/ "rapl_after" \in DOMAIN rapl

\* C3: in CPU full-intensity mode stress_cpu starts exactly
\* max(1, floor(cores * fraction)) workers for every accepted fraction: at
\* least one, never more than cores, and exactly cores for fraction = 1.
C3_WorkerCount ==
    flow \in {"cpumore", "cpu"} =>
        LET n == Max(1, (total_cores * args.a) \div FracDen)
        IN  /\ Len(procs) <= n
            /\ pc \in {"rampup", "during", "wait", "loop", "stop"} =>
                   /\ Len(procs) = n
                   /\ Len(procs) >= 1
                   /\ Len(procs) <= total_cores
                   /\ args.a = FracDen => Len(procs) = total_cores

\* fraction 3/4 on 3 cores: floor(2.25) = 2 workers have been started
C3_Witness ==
    /\ flow = "cpumore"
    /\ pc = "rampup"
    /\ total_cores = 3
    /\ args.a = 3
    /\ Len(procs) = 2

\* C4: once the workers have been started, the session never ends without
\* stop_processes having been invoked on the pool, also when a
\* KeyboardInterrupt arrives while the workers run.
C4_StopBeforeEnd ==
    (flow \in {"cpumore", "cpu", "duty"} /\ Ended /\ PoolStarted) =>
        stop_called

\* C5: the baseline utilization sample and the baseline energy reading are
\* completed before the first worker is started: no worker exists while a
\* baseline sample is still to be taken.
C5_BaselineBeforeWorkers ==
    /\ pc \in {"validate", "find_domain", "baseline_util", "baseline_energy"}
           => Len(procs) = 0
    /\ Len(procs) > 0 =>
           /\ Printed("util_before")
           /\ flow \in {"cpumore", "duty"} => "e_before" \in DOMAIN locals
           /\ flow = "bw" => "rapl_before" \in DOMAIN rapl

\* the workers run and both baseline samples are there
C5_Witness ==
    /\ flow = "cpumore"
    /\ pc = "rampup"
    /\ Len(procs) > 0
    /\ \A i \in 1..Len(procs) : procs[i] = "Running"
    /\ Printed("util_before")
    /\ "e_before" \in DOMAIN locals

\* C6: the final energy reading is taken only after every worker of the
\* pool has been waited on and has either stopped or outlived the join
\* timeout of stop_processes; it is never taken while a worker runs that
\* has not been asked to stop and waited on.
C6_FinalReadAfterTeardown ==
    (pc = "final_energy" \/ FinalRead) =>
        \A i \in 1..Len(procs) :
            /\ i \in joined
            /\ \/ procs[i] = "Stopped"
               \/ stop_called /\ procs[i] = "Stopping"

\* the final reading was taken after a teardown in which one worker
\* stopped and another outlived its join timeout
C6_Witness ==
    /\ flow = "cpumore"
    /\ "e_after" \in DOMAIN locals
    /\ Len(procs) = 2
    /\ procs[1] = "Stopping"
    /\ procs[2] = "Stopped"

\* C7: after stop_processes returns, every worker is stopped or has been
\* marked abandoned with a warning (the scripts print no such warning:
\* "warning_worker" stands for it).
C7_NoSilentSurvivor ==
    stop_called =>
        \A i \in 1..Len(procs) :
            procs[i] = "Stopped" \/ Printed("warning_worker")

\* C8: a session whose fraction is outside (0, 1] is rejected before any
\* worker is started: the number of started workers stays 0.
C8_InvalidFractionRejected ==
    (flow \in {"cpumore", "bw"} /\ ~(0 < args.a /\ args.a <= FracDen)) =>
        Len(procs) = 0

\* C9 as stated: every energy delta a session reports is >= 0, in the
\* single-domain flow and in the all-domain flow.
C9_DeltaNonNegative ==
    Printed("summary") =>
        /\ "e_delta" \in DOMAIN locals => locals["e_delta"] >= 0
        /\ "delta" \in DOMAIN rapl =>
               \A k \in DOMAIN rapl["delta"] : rapl["delta"][k] >= 0

\* C9 as amended: the delta of the single-domain flow (delta_energy_wrap)
\* is >= 0 for readings in [0, maxRange], also when the counter wrapped
\* between the samples; the delta of a domain in the all-domain flow
\* (compute_rapl_delta) is >= 0 exactly when the later reading is not below
\* the earlier one, and negative when the counter wrapped.
C9_DeltaNonNegativeSingleDomain ==
    Printed("summary") =>
        /\ "e_delta" \in DOMAIN locals => locals["e_delta"] >= 0
        /\ "delta" \in DOMAIN rapl =>
               \A k \in DOMAIN rapl["delta"] :
                   rapl["delta"][k] >= 0 <=>
                       rapl["rapl_after"][k] >= rapl["rapl_before"][k]

\* the counter wrapped between the two samples of a single-domain session
C9_Witness ==
    /\ flow = "cpumore"
    /\ Printed("summary")
    /\ "e_delta" \in DOMAIN locals
    /\ locals["e_after"] < locals["e_before"]
    /\ locals["e_delta"] = (locals["max_j"] - locals["e_before"])
                               + locals["e_after"]

\* C10: if an interrupt arrives while the workers run, the session still
\* ends with a report: the workers are stopped, the final energy reading is
\* taken and the energy delta is printed.
C10_InterruptStillReports ==
    (/\ flow \in {"cpumore", "duty"}
     /\ Ended
     /\ PoolStarted
     /\ interrupted \in {"rampup", "during", "wait"}) =>
        /\ stop_called
        /\ FinalRead
        /\ Printed("complete")

\* C11: in the full-intensity CPU session the time between the start of
\* the workers and the call of stop_processes equals the requested
\* duration (stated for the durations that cover the ramp-up delay and the
\* interior sample).
C11_LoadWindowEqualsDuration ==
    (/\ flow = "cpumore"
     /\ pc = "stop"
     /\ args.duration >= RampUp + SampleWindow) =>
        elapsed = args.duration


---------------------------------------------------------------------------
(* C12: find_rapl_domain *)

\* the entries of a find_rapl_domain call whose name, read as the claim
\* reads it (the identifier when the name file cannot be read), is `name`
NamedOrIdentified(entries, name) ==
    {i \in 1..Len(entries) :
        IF entries[i].state = "ok" THEN Strip(entries[i]) = name
                                   ELSE EntryIds[i] = name}

\* C12 as stated: find_rapl_domain returns an entry whose name equals the
\* requested name, an entry whose name cannot be read counting as named by
\* its identifier, and fails with the not-found error when there is none.
C12_FindFallsBackToIdentifier ==
    (fn = "find_rapl_domain" /\ ret # <<>>) =>
        LET hits == NamedOrIdentified(fargs[1], fargs[2])
        IN  IF hits = {}
            THEN ret[1] = Raise("RuntimeError")
            ELSE ret[1] \in {Return(EntryIds[i]) : i \in hits}

\* the entries that stop the scan: a readable name equal to the requested
\* one, or a name file that exists and cannot be opened
Stops(entries, name) ==
    {i \in 1..Len(entries) :
        \/ entries[i].state = "denied"
        \/ entries[i].state = "ok" /\ Strip(entries[i]) = name}

\* C12 amended: find_rapl_domain returns the first entry whose stripped,
\* readable name equals the requested name exactly; an entry without a name
\* file is skipped (never matched by its identifier); a name file that
\* exists but cannot be opened before a match ends the call with that
\* error; with neither, the call fails with the not-found RuntimeError.
C12_FindMatchesReadableNamesOnly ==
    (fn = "find_rapl_domain" /\ ret # <<>>) =>
        LET entries == fargs[1]
            stops == Stops(entries, fargs[2])
        IN  IF stops = {}
            THEN ret[1] = Raise("RuntimeError")
            ELSE LET first == CHOOSE i \in stops : \A j \in stops : i <= j
                 IN  IF entries[first].state = "denied"
                     THEN ret[1] = Raise("PermissionError")
                     ELSE ret[1] = Return(EntryIds[first])

\* the requested name is the identifier of an entry without a name file,
\* and the call has failed with the not-found error
C12_Witness ==
    /\ fn = "find_rapl_domain"
    /\ ret = <<Raise("RuntimeError")>>
    /\ Len(fargs[1]) >= 1
    /\ fargs[1][1].state = "missing"
    /\ fargs[2] = EntryIds[1]

---------------------------------------------------------------------------
(* C13: read_rapl_energy *)

\* C13 as stated: read_rapl_energy returns a sample whatever the state of
\* the entries, and the sample holds every entry whose counter is readable
\* and numeric.
C13_ReadNeverFails ==
    (fn \in {"read_rapl_energy_bw", "read_rapl_energy_mem"} /\ ret # <<>>) =>
        /\ ret[1].kind = "return"
        /\ \A i \in 1..Len(fargs[1]) :
              fargs[1][i].energy = "ok" =>
                  (IF fargs[1][i].name.state = "ok"
                   THEN Strip(fargs[1][i].name)
                   ELSE EntryIds[i]) \in DOMAIN ret[1].value

---------------------------------------------------------------------------
(* C14: average power *)

\* C14 as stated: once the all-domain session has its energy delta, the
\* average power joules / elapsed never ends the session with an unhandled
\* arithmetic error, whatever the requested duration (0 included).
C14_PowerDefinedForAnyElapsed ==
    (flow = "bw" /\ "delta" \in DOMAIN rapl /\ Ended) =>
        exc # "ZeroDivisionError"

---------------------------------------------------------------------------
(* C15: teardown *)

\* C15 as stated: while the orchestrator waits for its workers in teardown
\* it can always go on, whether or not the workers have exited.
C15_TeardownNeverBlocks ==
    (pc \in {"stop", "join"}) => ENABLED (StopProcesses \/ JoinWorkers)

---------------------------------------------------------------------------
(* C16: worker spawn failure *)

\* C16 as stated: when the spawn of a worker fails after earlier workers
\* were started, the session does not end with those workers still
\* running (stated for the sessions whose workers are not daemons).
C16_SpawnFailureStopsStartedWorkers ==
    (/\ flow \in {"duty", "bw"}
     /\ Ended
     /\ exc = "OSError"
     /\ Len(procs) < SpawnCount(flow)) =>
        \A i \in 1..Len(procs) : procs[i] # "Running"

---------------------------------------------------------------------------
(* C17: discovery failure in the single-domain flows *)

\* find_rapl_domain / read_max_energy_j failed in this session
DiscoveryFailed ==
    \/ flow = "duty" /\ rapl_path = "None"
    \/ /\ flow = "cpumore"
       /\ pc = "aborted"
       /\ rapl_path = "unset"
       /\ exc \in {"RuntimeError", "OSError"}

\* C17 as stated: in the single-domain flows a run whose domain discovery
\* failed never starts a worker.
C17_DiscoveryFailureBeforeLoad ==
    DiscoveryFailed => (procs = <<>> /\ ~Printed("starting"))

\* C17 amended: in stresscpumore.py a discovery failure ends the session
\* before the baseline and before any worker is started; in
\* dutycyclecpustress.py the failure is caught and printed as a warning and
\* the session goes on, load included, with the energy readings taken as 0
\* and no energy line in the report.
C17_DiscoveryFailureFatalOrWarned ==
    /\ (flow = "cpumore" /\ DiscoveryFailed) =>
           /\ procs = <<>>
           /\ ~Printed("util_before")
           /\ ~Printed("starting")
    /\ (flow = "duty" /\ DiscoveryFailed) =>
           /\ Printed("warning_rapl")
           /\ exc \notin {"RuntimeError"}
           /\ "e_before" \in DOMAIN locals => locals["e_before"] = 0
           /\ "e_after" \in DOMAIN locals => locals["e_after"] = 0
           /\ "e_delta" \notin DOMAIN locals
           /\ ~Printed("energy_after")
           /\ ~Printed("summary")

\* a duty-cycle session whose discovery failed has run its workers and
\* completed
C17_Witness ==
    /\ flow = "duty"
    /\ DiscoveryFailed
    /\ pc = "done"
    /\ procs # <<>>
    /\ Printed("complete")

---------------------------------------------------------------------------
(* C18: delta_energy_wrap against the energy truly consumed *)

\* the counter of the call wrapped exactly once and its later reading is
\* below the earlier one
WrappedOnce ==
    /\ fn = "energy_over_counter"
    /\ ret # <<>>
    /\ Wraps(fargs[1], fargs[2], fargs[4]) = 1
    /\ CounterAfter(fargs[1], fargs[2], fargs[4]) < fargs[1]

\* C18 as stated: for a counter whose readings are 0..maxRange and that
\* restarts from zero when it passes maxRange (period maxRange + 1), after
\* exactly one wrap with the later reading below the earlier one
\* delta_energy_wrap equals the energy consumed between the two samples.
C18_WrapDeltaIsConsumedEnergy ==
    (WrappedOnce /\ fargs[4] = fargs[3] + 1) => ret[1] = fargs[2]

\* C18 amended: after exactly one wrap with the later reading below the
\* earlier one delta_energy_wrap is (maxRange - prev) + curr; that is the
\* consumed energy when the period of the counter is maxRange (readings
\* 0..maxRange-1) and exactly one counter unit less than the consumed
\* energy when the period is maxRange + 1 (readings 0..maxRange).
C18_WrapDeltaUpToPeriod ==
    WrappedOnce =>
        /\ ret[1] = (fargs[3] - fargs[1])
                        + CounterAfter(fargs[1], fargs[2], fargs[4])
        /\ fargs[4] = fargs[3] => ret[1] = fargs[2]
        /\ fargs[4] = fargs[3] + 1 => ret[1] = fargs[2] - 1

\* maxRange = 5, readings 0..5: from 4 the counter counts 3 units (5, 0, 1)
\* and reads 1; delta_energy_wrap gives 2
C18_Witness ==
    /\ fn = "energy_over_counter"
    /\ fargs = <<4, 3, 5, 6>>
    /\ ret = <<2>>

---------------------------------------------------------------------------
(* C19: the buffers of a memory worker against its share *)

RECURSIVE SumSeq(_)
SumSeq(q) ==
    IF q = <<>> THEN 0 ELSE Head(q) + SumSeq(Tail(q))

\* C19 as stated: the buffers a memory worker allocates add up to at most
\* its share int(total * fraction) and to less than one element per buffer
\* below it.
C19_BuffersWithinShare ==
    (fn \in {"worker_task", "memory_bandwidth_stress"} /\ ret # <<>>) =>
        LET share == PyInt(fargs[1] * fargs[2], FracDen)
            allocated == SumSeq(ret[1])
        IN  /\ allocated <= share
            /\ share - allocated < Float64Bytes * Len(ret[1])

---------------------------------------------------------------------------
(* The duty-cycle worker, cpu_worker(a, interval, total_duration), on a   *)
(* clock of ticks of 1 / FracDen seconds.  fargs = <<a, interval,         *)
(* total_duration>> with the fraction a / FracDen and the two times in    *)
(* seconds; ret holds the position of the worker and its clock.           *)

\* ticks one math.factorial(n) can take
MaxFactTime ==
    3

\* a number of seconds in ticks
Ticks(seconds) ==
    seconds * FracDen

\* idle_time with the fraction left out
idle_time_zero(a, interval) ==
    0

\* active_time = a * interval, in ticks
active_time(a, interval) ==
    (a * Ticks(interval)) \div FracDen

\* idle_time = (1 - a) * interval, in ticks
idle_time(a, interval) ==
    ((FracDen - a) * Ticks(interval)) \div FracDen

\* end_time = time.time() + total_duration, the worker about to test its
\* outer loop
InitWorker ==
    /\ NoSession
    /\ fn = "cpu_worker"
    /\ fargs \in (0..FracDen) \X (1..MaxInterval) \X (1..MaxDuration)
    /\ ret = [pc |-> "while", now |-> 0, t0 |-> 0,
              end_time |-> Ticks(fargs[3])]

\* while time.time() < end_time: ... t0 = time.time()
WorkerWhile ==
    /\ fn = "cpu_worker"
    /\ ret.pc = "while"
    /\ ret' = IF ret.now < ret.end_time
              THEN [ret EXCEPT !.pc = "burn", !.t0 = ret.now]
              ELSE [ret EXCEPT !.pc = "exited"]
    /\ UNCHANGED <<fn, fargs>>
    /\ UNCHANGED session_vars

\* while (time.time() - t0) < active_time: math.factorial(n)
WorkerBurn ==
    /\ fn = "cpu_worker"
    /\ ret.pc = "burn"
    /\ IF ret.now - ret.t0 < active_time(fargs[1], fargs[2])
       THEN \E d \in 1..MaxFactTime : ret' = [ret EXCEPT !.now = ret.now + d]
       ELSE ret' = [ret EXCEPT !.pc = "idle"]
    /\ UNCHANGED <<fn, fargs>>
    /\ UNCHANGED session_vars

\* if idle_time > 0: time.sleep(idle_time)
WorkerIdle ==
    /\ fn = "cpu_worker"
    /\ ret.pc = "idle"
    /\ ret' = [ret EXCEPT !.pc = "while",
                          !.now = ret.now + idle_time(fargs[1], fargs[2])]
    /\ UNCHANGED <<fn, fargs>>
    /\ UNCHANGED session_vars

NextWorker ==
    \/ WorkerWhile
    \/ WorkerBurn
    \/ WorkerIdle

\* the worker is a running process: it takes its next step
SpecWorker ==
    InitWorker /\ [][NextWorker]_vars /\ WF_vars(NextWorker)

---------------------------------------------------------------------------
(* C20: termination of the duty-cycle worker *)

\* C20 as stated: the worker has exited no later than duration + interval
\* after it started.
C20_ExitsWithinDurationPlusInterval ==
    (fn = "cpu_worker" /\ ret.pc = "exited") =>
        ret.now <= Ticks(fargs[3]) + Ticks(fargs[2])

\* the worker is in a cycle that began at t0, or has just completed it
WorkerWithinCycle ==
    /\ ret.t0 < ret.end_time
    /\ ret.now <= ret.t0 + Ticks(fargs[2]) + (MaxFactTime - 1)

\* C20 amended: the worker begins a cycle only while the clock is below
\* end_time, a cycle lasts at most interval plus the overrun of its burn
\* loop (less than one factorial computation), so the worker eventually
\* exits, less than duration + interval + one factorial computation after
\* it started.
C20_ExitsWithinOverrun ==
    /\ [](fn = "cpu_worker" => WorkerWithinCycle)
    /\ [](ret.pc = "exited" =>
            ret.now < Ticks(fargs[3]) + Ticks(fargs[2]) + MaxFactTime - 1)
    /\ <>(ret.pc = "exited")

\* a worker that exited later than duration + interval after its start,
\* after more than one cycle
C20_Witness ==
    /\ fn = "cpu_worker"
    /\ ret.pc = "exited"
    /\ ret.t0 > 0
    /\ ret.now > Ticks(fargs[3]) + Ticks(fargs[2])

---------------------------------------------------------------------------
(* C21: one reading per readable entry in the all-domain sample *)

\* C21 as stated: the sample read_rapl_energy returns has as many entries
\* as there are powercap entries with a readable counter, and each of them
\* is found in the sample with its own reading, also when two entries
\* declare the same name.
C21_OneReadingPerReadableEntry ==
    (/\ fn \in {"read_rapl_energy_bw", "read_rapl_energy_mem"}
     /\ ret # <<>>
     /\ ret[1].kind = "return") =>
        LET entries == fargs[1]
            readable == {i \in 1..Len(entries) : entries[i].energy = "ok"}
            sample == ret[1].value
        IN  /\ Cardinality(DOMAIN sample) = Cardinality(readable)
            /\ \A i \in readable :
                  LET domain == IF entries[i].name.state = "ok"
                                THEN Strip(entries[i].name)
                                ELSE EntryIds[i]
                  IN  domain \in DOMAIN sample /\ sample[domain] = entries[i].uj

=============================================================================
